---- MODULE Spec2Model ----
(***************************************************************************)
(* A network of Multicast engines (js-libp2p-multicast-conditional).       *)
(* Every node runs the same engine: the duplicate-suppression cache, the   *)
(* local subscription set, the forwarding-hook registry, one Peer record   *)
(* per known remote node, and the receive / forward pipeline.              *)
(*                                                                         *)
(* JavaScript runs every handler to completion, so each handler is one     *)
(* action.  The only suspension point inside the engine is a forwarding    *)
(* hook that calls back out of line: the final callback of async/filter    *)
(* is then a step of its own (FilterDone).                                 *)
(***************************************************************************)
EXTENDS Integers, Sequences, FiniteSets, Bags, TLC

\* ------------------------------------------------------------------ bounds
MaxHops == 2
MaxPublish == 1
MaxSubOps == 2
MaxLinkOps == 3
MaxHookOps == 2
MaxExpire == 1
MaxLifeOps == 3
MaxRetry == 1

Nodes == {"A", "B", "C"}
Handlers == {"h1", "h2"}
Topics == {"foo", "bar"}
Data == {0, 1}

\* the argument lists the API is exercised with (ensureArray leaves arrays alone)
TopicLists == {<<"foo">>, <<"bar">>, <<"foo", "bar">>}
PayloadLists == {<<0>>, <<1>>, <<0, 1>>}
HopsValues == 0..MaxHops
NegativeHops == {-1}
HookLists ==
  {<<"nonzero">>, <<"faulty">>, <<"slow">>, <<"nonzero", "slow">>, <<"nonzero", "faulty">>}

\* ----------------------------------------------------------------- helpers
Range(s) == {s[i] : i \in DOMAIN s}

\* a JavaScript Set keeps insertion order: modelled as a duplicate-free sequence
SetAdd(s, x) == IF x \in Range(s) THEN s ELSE Append(s, x)

SetDelete(s, x) == SelectSeq(s, LAMBDA y : y # x)

RECURSIVE SetAddAll(_, _)
SetAddAll(s, xs) ==
  IF xs = <<>> THEN s ELSE SetAddAll(SetAdd(s, Head(xs)), Tail(xs))

RECURSIVE SetDeleteAll(_, _)
SetDeleteAll(s, xs) ==
  IF xs = <<>> THEN s ELSE SetDeleteAll(SetDelete(s, Head(xs)), Tail(xs))

\* ---------------------------------------------------------- message forms
\* Buffer.from(text) and buffer.toString(): bytes are tagged, text is bare
BufferFrom(text) == <<"buf", text>>

BufferToString(buf) == buf[2]

\* utils.msgId(from, seqno): the concatenation from || seqno-as-text
msgId(from, seqno) == <<from, seqno>>

\* utils.normalizeOutRpcMessages: `from` travels as bytes
normalizeOutRpcMessage(m) == [m EXCEPT !.from = BufferFrom(m.from)]

normalizeOutRpcMessages(ms) == [i \in DOMAIN ms |-> normalizeOutRpcMessage(ms[i])]

\* utils.normalizeInRpcMessages: `from` is text again
normalizeInRpcMessage(m) == [m EXCEPT !.from = BufferToString(m.from)]

normalizeInRpcMessages(ms) == [i \in DOMAIN ms |-> normalizeInRpcMessage(ms[i])]

\* the identifier of an in-memory message, as the receive pipeline computes it
IdOf(m) == msgId(m.from, BufferToString(m.seqno))

\* utils.anyMatch(a, b)
anyMatch(a, b) == \E i \in DOMAIN a : a[i] \in Range(b)

\* ------------------------------------------------------- forwarding hooks
\* The hooks are supplied by the application; these are the ones the model
\* registers.  Each calls back with (err, truthy):
\*   nonzero  calls back at once, truthy iff the payload is not 0
\*   faulty   calls back at once, with an error iff the payload is 0
\*   slow     calls back out of line, truthy iff the payload is not 0
Validators == {"nonzero", "faulty", "slow"}

IsAsync(v) == v = "slow"

Validate(v, q, m) ==
  CASE v = "nonzero" -> IF m.data # 0 THEN "true" ELSE "false"
    [] v = "faulty" -> IF m.data # 0 THEN "true" ELSE "error"
    [] OTHER -> IF m.data # 0 THEN "true" ELSE "false"

\* ------------------------------------------------------------------- state
VARIABLES
  started,        \* [node] this.started
  subscriptions,  \* [node] this.subscriptions, a Set
  cache,          \* [node] the live keys of this.cache
  fwrdHooks,      \* [node][topic] this.fwrdHooks: [has, hooks]
  peers,          \* [node][remote] the Peer record: [refs, stream, topics, onConnection]
  chan,           \* [node][remote] records pushed on the send stream, not yet read
  jobs,           \* one record per (forward call, peer, topic) iteration
  calls,          \* every invocation of _forwardMessages
  delivered,      \* [node] the bag of emit(topic, message) to local listeners
  seen,           \* [node] identifiers the receive pipeline discarded as duplicates
  runs,           \* [node] the bag of messages the receive pipeline accepted, as received
  expired,        \* [node] the bag of identifiers whose cache entry timed out
  spinning,       \* [node] the checkIfReady closures that keep rescheduling: [peer, topics]
  lost,           \* [node][remote] a pushed record was lost with its connection
  nextSeqno,      \* the next value utils.randomSeqno() returns
  used,           \* how often each bounded operation has run
  nodeUp,         \* [node] node.isStarted() of the host node
  handlers,       \* [node][topic] the listeners registered with on(topic, handler)
  last,           \* the latest call of the public interface and how it ended
  closing         \* [node] stop() is under way, and the peers whose send stream
                  \* close() has ended while this.stream is still set

vars == <<started, subscriptions, cache, fwrdHooks, peers, chan, jobs, calls,
          delivered, seen, runs, expired, spinning, lost, nextSeqno, used,
          nodeUp, handlers, last, closing>>

\* what the facade adds to the engine, and the record of the latest call
outer == <<nodeUp, handlers, last, closing>>

NotClosing == [stopping |-> FALSE, ended |-> {}]

NoPeer == [refs |-> 0, stream |-> FALSE, topics |-> <<>>, onConnection |-> <<>>]

NoHooks == [has |-> FALSE, hooks |-> <<>>]

NoneUsed == [publish |-> 0, sub |-> 0, link |-> 0, hook |-> 0, expire |-> 0, life |-> 0, retry |-> 0]

\* no call of the public interface has been made
NoCall == [seq |-> 0, op |-> "none", node |-> "none", result |-> "none", value |-> {}]

\* new Multicast(libp2p), for every node
Init ==
  /\ started = [n \in Nodes |-> FALSE]
  /\ subscriptions = [n \in Nodes |-> <<>>]
  /\ cache = [n \in Nodes |-> {}]
  /\ fwrdHooks = [n \in Nodes |-> [t \in Topics |-> NoHooks]]
  /\ peers = [n \in Nodes |-> [p \in Nodes |-> NoPeer]]
  /\ chan = [n \in Nodes |-> [p \in Nodes |-> <<>>]]
  /\ jobs = {}
  /\ calls = {}
  /\ delivered = [n \in Nodes |-> EmptyBag]
  /\ seen = [n \in Nodes |-> {}]
  /\ runs = [n \in Nodes |-> EmptyBag]
  /\ expired = [n \in Nodes |-> EmptyBag]
  /\ spinning = [n \in Nodes |-> {}]
  /\ lost = [n \in Nodes |-> [p \in Nodes |-> FALSE]]
  /\ nextSeqno = 1
  /\ used = NoneUsed
  /\ nodeUp = [n \in Nodes |-> FALSE]
  /\ handlers = [n \in Nodes |-> [t \in Topics |-> <<>>]]
  /\ last = NoCall
  /\ closing = [n \in Nodes |-> NotClosing]

\* ------------------------------------------------------------ _emitMessages
\* topics.forEach(topic => subscribed ? messages.forEach(emit(topic, message)))
RECURSIVE Emitted(_, _, _, _)
Emitted(subs, topics, messages, via) ==
  IF topics = <<>> THEN <<>>
  ELSE (IF Head(topics) \in Range(subs)
          THEN [i \in DOMAIN messages |->
                  [topic |-> Head(topics), msg |-> messages[i], via |-> via]]
          ELSE <<>>)
       \o Emitted(subs, Tail(topics), messages, via)

\* the log of emits is kept as a bag
RECURSIVE BagOfSeq(_)
BagOfSeq(s) ==
  IF s = <<>> THEN EmptyBag ELSE SetToBag({Head(s)}) (+) BagOfSeq(Tail(s))

\* --------------------------------------------------------- _forwardMessages
\* (mutant) every writable peer is considered, whatever it announced
ConsideredAnyWritable(peer, topics) == peer.stream

\* the guard at the head of the per-peer loop
Considered(peer, topics) == peer.stream /\ anyMatch(peer.topics, topics)

\* async/every over the hooks of one topic, for one message: when the verdict
\* is known ("sync": before every returns, "async": out of line) and what it is.
\* Hooks that call back at once decide in array order; the first that is not
\* truthy ends the test.
RECURSIVE FirstNotTrue(_, _, _)
FirstNotTrue(vs, q, m) ==
  IF vs = <<>> THEN "true"
  ELSE IF Validate(Head(vs), q, m) # "true" THEN Validate(Head(vs), q, m)
  ELSE FirstNotTrue(Tail(vs), q, m)

EveryVerdict(vs, q, m) ==
  LET now == FirstNotTrue(SelectSeq(vs, LAMBDA v : ~IsAsync(v)), q, m)
      later == SelectSeq(vs, IsAsync)
  IN  IF now # "true" THEN [when |-> "sync", res |-> now]
      ELSE IF later = <<>> THEN [when |-> "sync", res |-> "true"]
      ELSE [when |-> "async", res |-> FirstNotTrue(later, q, m)]

\* the iteratee handed to async/filter
FilterVerdict(vs, q, topic, m) ==
  IF topic \notin Range(m.topicIDs)
    THEN [when |-> "sync", res |-> "false"]
    ELSE EveryVerdict(vs, q, m)

\* async/filter over the messages: an error from any iteratee ends the filter
\* with that error and no list; otherwise the list of the messages that passed
FilterOutcome(vs, q, topic, messages) ==
  LET verdict(i) == FilterVerdict(vs, q, topic, messages[i])
      idx == DOMAIN messages
      out == SelectSeq(messages, LAMBDA m : FilterVerdict(vs, q, topic, m).res = "true")
  IN  IF \E i \in idx : verdict(i).when = "sync" /\ verdict(i).res = "error"
        THEN [when |-> "sync", err |-> TRUE, out |-> <<>>]
      ELSE IF \E i \in idx : verdict(i).when = "async"
        THEN [when |-> "async",
              err |-> \E i \in idx : verdict(i).res = "error",
              out |-> out]
      ELSE [when |-> "sync", err |-> FALSE, out |-> out]

\* one turn of `for (let topic of peer.topics)`: what is decided for the peer
\* on account of this topic.  status: "sent" (sendMessages ran), "none" (the
\* filtered list was empty), "error" (the filter ended with an error),
\* "pending" (the filter has not called back yet)
Iteration(hk, q, topic, messages) ==
  IF hk.has
    THEN LET f == FilterOutcome(hk.hooks, q, topic, messages)
         IN  [hooked |-> TRUE, validators |-> hk.hooks, err |-> f.err, out |-> f.out,
              status |-> IF f.when = "async" THEN "pending"
                         ELSE IF f.err THEN "error"
                         ELSE IF Len(f.out) > 0 THEN "sent" ELSE "none"]
    ELSE [hooked |-> FALSE, validators |-> <<>>, err |-> FALSE, out |-> messages,
          status |-> "sent"]

\* peer.sendMessages(msgs): one RPC record with msgs populated
MsgsRpc(msgs) == [subscriptions |-> <<>>, msgs |-> msgs]

\* the records one forward call pushes on the peer's stream before it returns
RECURSIVE PushedNow(_, _, _, _)
PushedNow(hooks, q, topicsLeft, messages) ==
  IF topicsLeft = <<>> THEN <<>>
  ELSE LET it == Iteration(hooks[Head(topicsLeft)], q, Head(topicsLeft), messages)
       IN  (IF it.status = "sent"
              THEN <<MsgsRpc(normalizeOutRpcMessages(it.out))>> ELSE <<>>)
           \o PushedNow(hooks, q, Tail(topicsLeft), messages)

\* w is the part of the state a handler works on: [cache, delivered, seen, runs,
\* chan, jobs, calls].  _forwardMessages(topics, messages) at node n.
ForwardMessages(w, n, topics, messages, via) ==
  LET c == [node |-> n, via |-> via, topics |-> topics, msgs |-> messages,
            k |-> 1 + Cardinality({x \in w.calls :
                        x.node = n /\ x.via = via /\ x.msgs = messages})]
      hooks == fwrdHooks[n]
      cons == {q \in Nodes \ {n} : Considered(peers[n][q], topics)}
      job(q, t) ==
        LET it == Iteration(hooks[t], q, t, messages)
        IN  [call |-> c, node |-> n, peer |-> q, topic |-> t, msgs |-> messages,
             ptopics |-> peers[n][q].topics, hooked |-> it.hooked,
             validators |-> it.validators, err |-> it.err, out |-> it.out,
             status |-> it.status,
             sentTopics |-> IF it.status = "sent" THEN peers[n][q].topics ELSE <<>>]
  IN  [w EXCEPT
        !.chan[n] = [q \in Nodes |->
           IF q \in cons
             THEN @[q] \o PushedNow(hooks, q, peers[n][q].topics, messages)
             ELSE @[q]],
        !.jobs = @ \cup UNION {{job(q, t) : t \in Range(peers[n][q].topics)} : q \in cons},
        !.calls = @ \cup {c}]

\* ------------------------------------------------------ _processRpcMessages
\* (mutant) the hop count is forwarded as received
DecrementHopsNot(msg) == msg

\* (mutant) the hop count is decremented whatever its sign
DecrementHopsAlways(msg) == [msg EXCEPT !.hops = @ - 1]

\* step 3 of the loop body: decrement remaining hops
DecrementHops(msg) ==
  IF msg.hops > 0 THEN [msg EXCEPT !.hops = @ - 1] ELSE msg

\* (mutant) forwarding stops one hop early
StopsHereEarly(msg) == msg.hops <= 1

\* step 2 of the loop body: don't propagate if we've reached 0
StopsHere(msg) == msg.hops = 0

\* (mutant) the duplicate check never finds the identifier
CacheHasNever(c, id) == FALSE

\* this.cache.has(id)
CacheHas(c, id) == id \in c

\* (mutant) the identifier is not remembered
CachePutNothing(c, id) == c

\* this.cache.put(id)
CachePut(c, id) == c \cup {id}

\* the body of msgs.forEach in _processRpcMessages
ProcessRpcMessage(w, n, msg) ==
  IF CacheHas(w.cache[n], IdOf(msg))
    THEN [w EXCEPT !.seen[n] = @ \cup {IdOf(msg)}]
    ELSE LET w1 == [w EXCEPT
                      !.cache[n] = CachePut(@, IdOf(msg)),
                      !.runs[n] = @ (+) SetToBag({msg}),
                      !.delivered[n] = @ (+)
                         BagOfSeq(Emitted(subscriptions[n], msg.topicIDs, <<msg>>, "rpc"))]
         IN  IF StopsHere(msg) THEN w1
             ELSE ForwardMessages(w1, n, msg.topicIDs, <<DecrementHops(msg)>>, "rpc")

RECURSIVE ProcessRpcMessages(_, _, _)
ProcessRpcMessages(w, n, msgs) ==
  IF msgs = <<>> THEN w
  ELSE ProcessRpcMessages(ProcessRpcMessage(w, n, Head(msgs)), n, Tail(msgs))

\* ------------------------------------------------------------------ publish
\* buildMessage for the i-th payload: a fresh seqno, remembered in the cache
BuildMessage(from, seqno, data, hops, topics) ==
  [from |-> from, data |-> data, hops |-> hops, seqno |-> BufferFrom(seqno),
   topicIDs |-> topics]

BuiltMessages(n, topics, payloads, hops) ==
  [i \in DOMAIN payloads |->
     BuildMessage(n, nextSeqno + i - 1, payloads[i], hops, topics)]

\* (mutant) publish does not remember what it builds
PublishCacheNot(c, n, payloads) == c

\* the cache after messages.map(buildMessage)
PublishCache(c, n, payloads) ==
  c \cup {msgId(n, nextSeqno + i - 1) : i \in DOMAIN payloads}

\* ------------------------------------------- the order of effects in a handler
\* emit(topic, message), in the order _emitMessages makes the calls
EmitOrder(subs, topics, messages) ==
  LET es == Emitted(subs, topics, messages, "")
  IN  [i \in DOMAIN es |->
         [kind |-> "emit", peer |-> "", topic |-> es[i].topic, ids |-> {IdOf(es[i].msg)}]]

\* stream.push(record) for one peer, in the order of `for (let topic of peer.topics)`
PushOrder(n, q, messages) ==
  LET rs == PushedNow(fwrdHooks[n], q, peers[n][q].topics, messages)
  IN  [i \in DOMAIN rs |->
         [kind |-> "push", peer |-> q, topic |-> "",
          ids |-> {IdOf(m) : m \in Range(normalizeInRpcMessages(rs[i].msgs))}]]

\* this.peers.forEach in _forwardMessages: the pushes made before it returns.
\* The peers are visited in the order of the Map, which the model does not
\* keep: they are taken in a fixed order.
RECURSIVE ForwardOrder(_, _, _, _)
ForwardOrder(n, qs, topics, messages) ==
  IF qs = {} THEN <<>>
  ELSE LET q == CHOOSE x \in qs : TRUE
       IN  (IF Considered(peers[n][q], topics) THEN PushOrder(n, q, messages) ELSE <<>>)
           \o ForwardOrder(n, qs \ {q}, topics, messages)

\* (mutant) the forward call comes first
ForwardThenEmit(emits, forwards) == forwards \o emits

\* this._emitMessages(...) and then this._forwardMessages(...)
EmitThenForward(emits, forwards) == emits \o forwards

\* the effects of msgs.forEach in _processRpcMessages, message by message
RECURSIVE ProcessOrder(_, _, _)
ProcessOrder(w, n, msgs) ==
  IF msgs = <<>> THEN <<>>
  ELSE LET msg == Head(msgs)
       IN  (IF CacheHas(w.cache[n], IdOf(msg)) THEN <<>>
            ELSE EmitThenForward(
                   EmitOrder(subscriptions[n], msg.topicIDs, <<msg>>),
                   IF StopsHere(msg) THEN <<>>
                   ELSE ForwardOrder(n, Nodes \ {n}, msg.topicIDs, <<DecrementHops(msg)>>)))
           \o ProcessOrder(ProcessRpcMessage(w, n, msg), n, Tail(msgs))

\* the effects of publish after messages.map(buildMessage)
PublishOrder(n, topics, payloads, hops) ==
  LET msgObjects == BuiltMessages(n, topics, payloads, hops)
  IN  EmitThenForward(EmitOrder(subscriptions[n], topics, msgObjects),
                      ForwardOrder(n, Nodes \ {n}, topics, msgObjects))

World ==
  [cache |-> cache, delivered |-> delivered, seen |-> seen, runs |-> runs,
   chan |-> chan, jobs |-> jobs, calls |-> calls]

Install(w) ==
  /\ cache' = w.cache
  /\ delivered' = w.delivered
  /\ seen' = w.seen
  /\ runs' = w.runs
  /\ chan' = w.chan
  /\ jobs' = w.jobs
  /\ calls' = w.calls

\* publish(topics, messages, hops) past its assertion
PublishBody(n, topics, payloads, hops) ==
  /\ LET msgObjects == BuiltMessages(n, topics, payloads, hops)
         w1 == [World EXCEPT
                  !.cache[n] = PublishCache(@, n, payloads),
                  !.delivered[n] = @ (+)
                     BagOfSeq(Emitted(subscriptions[n], topics, msgObjects, "publish"))]
     IN  Install(ForwardMessages(w1, n, topics, msgObjects, "publish"))
  /\ nextSeqno' = nextSeqno + Len(payloads)
  /\ UNCHANGED <<started, subscriptions, fwrdHooks, peers, expired, spinning, lost>>

\* publish(topics, messages, hops), started
Publish(n, topics, payloads, hops) ==
  /\ started[n]
  /\ used.publish < MaxPublish
  /\ PublishBody(n, topics, payloads, hops)
  /\ used' = [used EXCEPT !.publish = @ + 1]
  /\ UNCHANGED outer

\* --------------------------------------------------------------- Peer record
\* _sendRawSubscriptions(topics, subscribe): the records it writes.  The guard
\* reads topics.size, which only a Set has: an empty Set writes nothing.
RawSubscriptions(topics, subscribe, isSet) ==
  IF isSet /\ Len(topics) = 0 THEN <<>>
  ELSE <<[subscriptions |->
            [i \in DOMAIN topics |-> [subscribe |-> subscribe, topicCID |-> topics[i]]],
          msgs |-> <<>>]>>

\* (mutant) the record is pushed whether or not there is a stream
WrittenAnyway(peer, records) == records

\* peer.write(record): pushed only while there is a stream
Written(peer, records) == IF peer.stream THEN records ELSE <<>>

\* peer.updateSubscriptions(changes)
RECURSIVE updateSubscriptions(_, _)
updateSubscriptions(topics, changes) ==
  IF changes = <<>> THEN topics
  ELSE updateSubscriptions(
         IF Head(changes).subscribe
           THEN SetAdd(topics, Head(changes).topicCID)
           ELSE SetDelete(topics, Head(changes).topicCID),
         Tail(changes))

\* the 'connection' listeners subscribe() left on the peer, fired by createStream:
\* each sends the topics of its subscribe call
RECURSIVE FiredOnConnection(_)
FiredOnConnection(listeners) ==
  IF listeners = <<>> THEN <<>>
  ELSE RawSubscriptions(Head(listeners), TRUE, FALSE) \o FiredOnConnection(Tail(listeners))

\* (mutant) the listeners stay on the peer after they fired
AfterConnectionAll(listeners) == listeners

\* peer.removeListener('connection', onConnection): each listener that fired
\* has removed itself
AfterConnection(listeners) == <<>>

\* base protocol accounting: a record leaves the peer map with its last reference
Released(peer) ==
  IF peer.refs <= 1 THEN NoPeer ELSE [peer EXCEPT !.refs = @ - 1]

\* the filters still waiting for hooks hold the Peer object that left the map:
\* it never gets a stream again, so their sendMessages will find none
DropJobs(js, n, q) ==
  {IF j.node = n /\ j.peer = q /\ j.status = "pending"
     THEN [j EXCEPT !.status = "dropped"] ELSE j : j \in js}

\* ------------------------------------------------------------------ actions
\* start(): the protocol handler is mounted
Start(n) ==
  /\ ~started[n]
  /\ started' = [started EXCEPT ![n] = TRUE]
  /\ UNCHANGED <<subscriptions, cache, fwrdHooks, peers, chan, jobs, calls, delivered,
                 seen, runs, expired, spinning, lost, nextSeqno, used>>
  /\ UNCHANGED outer

\* n dials p.  At n: the base dial path adds the record and createStream installs
\* the stream and emits 'connection'; then _onDial sends this.subscriptions.
\* At p: the incoming connection adds (or references) the record of n.
Link(n, p) ==
  /\ n # p /\ started[n] /\ started[p]
  /\ ~peers[n][p].stream
  /\ used.link < MaxLinkOps
  /\ peers' = [peers EXCEPT
       ![n][p] = [@ EXCEPT !.refs = @ + 1, !.stream = TRUE,
                           !.onConnection = AfterConnection(@)],
       ![p][n] = [@ EXCEPT !.refs = @ + 1]]
  /\ chan' = [chan EXCEPT ![n][p] =
       @ \o FiredOnConnection(peers[n][p].onConnection)
         \o RawSubscriptions(subscriptions[n], TRUE, TRUE)]
  /\ used' = [used EXCEPT !.link = @ + 1]
  /\ closing' = [closing EXCEPT ![n].ended = @ \ {p}]
  /\ UNCHANGED <<started, subscriptions, cache, fwrdHooks, jobs, calls, delivered,
                 seen, runs, expired, spinning, lost, nextSeqno>>
  /\ UNCHANGED <<nodeUp, handlers, last>>

\* the connection n dialled to p ends.  At n: onStreamEnd clears the stream and
\* emits 'close', which cancels the pending 'connection' listeners.  At p: the
\* inbound pipeline ends and the record of n is released.  What n had pushed and
\* p had not read is gone.
Unlink(n, p) ==
  /\ n # p
  /\ peers[n][p].stream
  /\ used.link < MaxLinkOps
  /\ peers' = [peers EXCEPT
       ![n][p] = Released([@ EXCEPT !.stream = FALSE, !.onConnection = <<>>]),
       ![p][n] = Released(@)]
  /\ jobs' = DropJobs(DropJobs(jobs, n, IF peers[n][p].refs <= 1 THEN p ELSE n),
                      p, IF peers[p][n].refs <= 1 THEN n ELSE p)
  /\ chan' = [chan EXCEPT ![n][p] = <<>>]
  /\ lost' = [lost EXCEPT ![n][p] = @ \/ chan[n][p] # <<>>]
  /\ used' = [used EXCEPT !.link = @ + 1]
  /\ closing' = [closing EXCEPT ![n].ended = @ \ {p}]
  /\ UNCHANGED <<started, subscriptions, cache, fwrdHooks, calls, delivered, seen,
                 runs, expired, spinning, nextSeqno>>
  /\ UNCHANGED <<nodeUp, handlers, last>>

\* sendSubscriptionsOnceReady for every known peer: what is pushed at once
SubscribeSends(n, topics) ==
  [chan EXCEPT ![n] = [q \in Nodes |->
     @[q] \o Written(peers[n][q], RawSubscriptions(topics, TRUE, FALSE))]]

\* sendSubscriptionsOnceReady for every known peer: the listeners it leaves
SubscribeDefers(n, topics) ==
  [peers EXCEPT ![n] = [q \in Nodes |->
     IF @[q].refs > 0 /\ ~@[q].stream
       THEN [@[q] EXCEPT !.onConnection = Append(@, topics)]
       ELSE @[q]]]

\* subscribe(topics) past its assertion
SubscribeBody(n, topics) ==
  /\ subscriptions' = [subscriptions EXCEPT ![n] = SetAddAll(@, topics)]
  /\ chan' = SubscribeSends(n, topics)
  /\ peers' = SubscribeDefers(n, topics)
  /\ UNCHANGED <<started, cache, fwrdHooks, jobs, calls, delivered, seen, runs,
                 expired, spinning, lost, nextSeqno>>

\* subscribe(topics), started
Subscribe(n, topics) ==
  /\ started[n]
  /\ used.sub < MaxSubOps
  /\ SubscribeBody(n, topics)
  /\ used' = [used EXCEPT !.sub = @ + 1]
  /\ UNCHANGED outer

\* unsubscribe(topics), started.  For a peer without a stream checkIfReady
\* reschedules itself with setImmediate(checkIfReady.bind(peer)): bind sets
\* `this`, so the rescheduled call has no peer argument and takes the else
\* branch again.
UnsubscribeSends(n, topics) ==
  [chan EXCEPT ![n] = [q \in Nodes |->
     @[q] \o Written(peers[n][q], RawSubscriptions(topics, FALSE, FALSE))]]

\* checkIfReady(peer): whether it sends; otherwise it reschedules itself.
\* hasPeer is FALSE when it is called without argument.
CheckIfReadySends(hasPeer, peer) == hasPeer /\ peer.stream

\* the closures unsubscribe leaves rescheduling, one per known peer it could
\* not write to
UnsubscribeSpins(n, topics) ==
  [spinning EXCEPT ![n] =
     @ \cup {[peer |-> q, topics |-> topics] :
               q \in {x \in Nodes : /\ peers[n][x].refs > 0
                                    /\ ~CheckIfReadySends(TRUE, peers[n][x])}}]

\* unsubscribe(topics) past its test of this.started
UnsubscribeBody(n, topics) ==
  /\ subscriptions' = [subscriptions EXCEPT ![n] = SetDeleteAll(@, topics)]
  /\ chan' = UnsubscribeSends(n, topics)
  /\ spinning' = UnsubscribeSpins(n, topics)
  /\ UNCHANGED <<started, cache, fwrdHooks, peers, jobs, calls, delivered, seen,
                 runs, expired, lost, nextSeqno>>

Unsubscribe(n, topics) ==
  /\ started[n]
  /\ used.sub < MaxSubOps
  /\ UnsubscribeBody(n, topics)
  /\ used' = [used EXCEPT !.sub = @ + 1]
  /\ UNCHANGED outer

\* addFrwdHook(topic, hook) on the registry entry of the topic
addFrwdHook(entry, hook) == [has |-> TRUE, hooks |-> SetAdd(entry.hooks, hook)]

\* removeFrwdHook(topic, hook): the entry stays, possibly empty
removeFrwdHook(entry, hook) ==
  IF entry.has THEN [entry EXCEPT !.hooks = SetDelete(@, hook)] ELSE entry

RECURSIVE addFrwdHooks(_, _)
addFrwdHooks(entry, hooks) ==
  IF hooks = <<>> THEN entry
  ELSE addFrwdHooks(addFrwdHook(entry, Head(hooks)), Tail(hooks))

RECURSIVE removeFrwdHooks(_, _)
removeFrwdHooks(entry, hooks) ==
  IF hooks = <<>> THEN entry
  ELSE removeFrwdHooks(removeFrwdHook(entry, Head(hooks)), Tail(hooks))

\* facade addFrwdHooks(topic, hooks): hooks.forEach(h => addFrwdHook(topic, h))
AddFrwdHooks(n, t, hooks) ==
  /\ used.hook < MaxHookOps
  /\ fwrdHooks' = [fwrdHooks EXCEPT ![n][t] = addFrwdHooks(@, hooks)]
  /\ used' = [used EXCEPT !.hook = @ + 1]
  /\ UNCHANGED <<started, subscriptions, cache, peers, chan, jobs, calls, delivered,
                 seen, runs, expired, spinning, lost, nextSeqno>>
  /\ UNCHANGED outer

\* facade removeFrwdHooks(topic, hooks)
RemoveFrwdHooks(n, t, hooks) ==
  /\ used.hook < MaxHookOps
  /\ fwrdHooks[n][t].has
  /\ fwrdHooks' = [fwrdHooks EXCEPT ![n][t] = removeFrwdHooks(@, hooks)]
  /\ used' = [used EXCEPT !.hook = @ + 1]
  /\ UNCHANGED <<started, subscriptions, cache, peers, chan, jobs, calls, delivered,
                 seen, runs, expired, spinning, lost, nextSeqno>>
  /\ UNCHANGED outer

\* _onRpc(n, rpc) at p, for the record at the head of n's stream to p
OnRpcBody(p, n) ==
  /\ LET rpc == Head(chan[n][p])
         w0 == [World EXCEPT !.chan[n][p] = Tail(@)]
     IN  /\ Install(IF Len(rpc.msgs) > 0
                      THEN ProcessRpcMessages(w0, p, normalizeInRpcMessages(rpc.msgs))
                      ELSE w0)
         /\ peers' = IF Len(rpc.subscriptions) > 0 /\ peers[p][n].refs > 0
                       THEN [peers EXCEPT ![p][n].topics =
                               updateSubscriptions(@, rpc.subscriptions)]
                       ELSE peers
  /\ UNCHANGED <<started, subscriptions, fwrdHooks, expired, spinning, lost,
                 nextSeqno, used>>

OnRpc(p, n) ==
  /\ n # p
  /\ chan[n][p] # <<>>
  /\ OnRpcBody(p, n)
  /\ UNCHANGED outer

\* the final callback of async/filter, once the hooks that answer out of line
\* have all called back
FilterDone(j) ==
  /\ j.status = "pending"
  /\ LET peer == peers[j.node][j.peer]
         sends == ~j.err /\ Len(j.out) > 0
         done == [j EXCEPT
                    !.status = IF j.err THEN "error"
                               ELSE IF Len(j.out) = 0 THEN "none"
                               ELSE IF peer.stream THEN "sent" ELSE "dropped",
                    !.sentTopics = IF sends /\ peer.stream THEN peer.topics ELSE <<>>]
     IN  /\ jobs' = (jobs \ {j}) \cup {done}
         /\ chan' = IF sends
                      THEN [chan EXCEPT ![j.node][j.peer] =
                              @ \o Written(peer, <<MsgsRpc(normalizeOutRpcMessages(j.out))>>)]
                      ELSE chan
  /\ UNCHANGED <<started, subscriptions, cache, fwrdHooks, peers, calls, delivered,
                 seen, runs, expired, spinning, lost, nextSeqno, used>>
  /\ UNCHANGED outer

\* the validity window of a cache entry ends
Expire(n, id) ==
  /\ id \in cache[n]
  /\ used.expire < MaxExpire
  /\ cache' = [cache EXCEPT ![n] = @ \ {id}]
  /\ expired' = [expired EXCEPT ![n] = @ (+) SetToBag({id})]
  /\ used' = [used EXCEPT !.expire = @ + 1]
  /\ UNCHANGED <<started, subscriptions, fwrdHooks, peers, chan, jobs, calls,
                 delivered, seen, runs, spinning, lost, nextSeqno>>
  /\ UNCHANGED outer

\* -------------------------------------------------- calls while not started
\* the engine's state apart from the operation counters
inner == <<started, subscriptions, cache, fwrdHooks, peers, chan, jobs, calls,
           delivered, seen, runs, expired, spinning, lost, nextSeqno>>

\* the record of a call that ended with `result`
Logged(op, n, result, value) ==
  [seq |-> last.seq + 1, op |-> op, node |-> n, result |-> result, value |-> value]

\* (mutant) the assertion is missing
AssertNothing(isStarted) == TRUE

\* assert(this.started, 'Multicast is not started'): whether the call goes on
AssertStarted(isStarted) == isStarted

\* if (!this.started) return, at the head of unsubscribe
QuietlyIgnored(isStarted) == ~isStarted

\* publish(topics, messages, hops), whatever the engine's state
PublishCall(n, topics, payloads, hops) ==
  /\ used.publish < MaxPublish
  /\ used' = [used EXCEPT !.publish = @ + 1]
  /\ IF AssertStarted(started[n])
       THEN /\ PublishBody(n, topics, payloads, hops)
            /\ last' = Logged("engine.publish", n, "returned",
                               {PublishOrder(n, topics, payloads, hops)})
       ELSE /\ last' = Logged("engine.publish", n, "AssertionError", {})
            /\ UNCHANGED inner
  /\ UNCHANGED <<nodeUp, handlers, closing>>

\* _onRpc(n, rpc) at p, with the order of its effects on record
OnRpcCall(p, n) ==
  /\ n # p
  /\ chan[n][p] # <<>>
  /\ OnRpcBody(p, n)
  /\ last' = Logged("_onRpc", p, "returned",
                     {ProcessOrder([World EXCEPT !.chan[n][p] = Tail(@)], p,
                                   normalizeInRpcMessages(Head(chan[n][p]).msgs))})
  /\ UNCHANGED <<nodeUp, handlers, closing>>

\* subscribe(topics), whatever the engine's state
SubscribeCall(n, topics) ==
  /\ used.sub < MaxSubOps
  /\ used' = [used EXCEPT !.sub = @ + 1]
  /\ IF AssertStarted(started[n])
       THEN /\ SubscribeBody(n, topics)
            /\ last' = Logged("engine.subscribe", n, "returned", {topics})
       ELSE /\ last' = Logged("engine.subscribe", n, "AssertionError", {topics})
            /\ UNCHANGED inner
  /\ UNCHANGED <<nodeUp, handlers, closing>>

\* unsubscribe(topics), whatever the engine's state
UnsubscribeCall(n, topics) ==
  /\ used.sub < MaxSubOps
  /\ used' = [used EXCEPT !.sub = @ + 1]
  /\ last' = Logged("engine.unsubscribe", n, "returned", {topics})
  /\ IF QuietlyIgnored(started[n])
       THEN UNCHANGED inner
       ELSE UnsubscribeBody(n, topics)
  /\ UNCHANGED <<nodeUp, handlers, closing>>

\* a rescheduled checkIfReady runs: setImmediate(checkIfReady.bind(peer)) binds
\* `this`, so it is called without argument
Retry(n, r) ==
  /\ r \in spinning[n]
  /\ used.retry < MaxRetry
  /\ used' = [used EXCEPT !.retry = @ + 1]
  /\ IF CheckIfReadySends(FALSE, peers[n][r.peer])
       THEN /\ chan' = [chan EXCEPT ![n][r.peer] =
                         @ \o RawSubscriptions(r.topics, FALSE, FALSE)]
            /\ spinning' = [spinning EXCEPT ![n] = @ \ {r}]
            /\ last' = Logged("retry", n, "sent", {r})
       ELSE /\ last' = Logged("retry", n, "rescheduled", {r})
            /\ UNCHANGED <<chan, spinning>>
  /\ UNCHANGED <<started, subscriptions, cache, fwrdHooks, peers, jobs, calls,
                 delivered, seen, runs, expired, lost, nextSeqno, nodeUp, handlers,
                 closing>>

\* ---------------------------------------------------------------- lifecycle
\* the host node starts and stops
NodeStart(n) ==
  /\ ~nodeUp[n]
  /\ used.life < MaxLifeOps
  /\ nodeUp' = [nodeUp EXCEPT ![n] = TRUE]
  /\ used' = [used EXCEPT !.life = @ + 1]
  /\ UNCHANGED <<inner, handlers, last, closing>>

NodeStop(n) ==
  /\ nodeUp[n]
  /\ used.life < MaxLifeOps
  /\ nodeUp' = [nodeUp EXCEPT ![n] = FALSE]
  /\ used' = [used EXCEPT !.life = @ + 1]
  /\ UNCHANGED <<inner, handlers, last, closing>>

\* (mutant) stop leaves the subscriptions
SameSubscriptions(subs) == subs

\* this.subscriptions = new Set()
NewSubscriptions(subs) == <<>>

\* every connection of n has ended
TornDown(f, n, none) ==
  [a \in Nodes |-> [b \in Nodes |-> IF a = n \/ b = n THEN none ELSE f[a][b]]]

\* close(callback) of every peer of n, up to setImmediate: the pushable is
\* ended and this.stream stays set
EndedByClose(n) == {q \in Nodes : peers[n][q].stream}

\* stop(callback).  super.stop fails when the engine is not started, and then
\* nothing changes; otherwise it calls close on every peer, which ends the
\* send streams at once and completes in a later turn.
StopCall(n) ==
  /\ used.life < MaxLifeOps
  /\ ~closing[n].stopping
  /\ used' = [used EXCEPT !.life = @ + 1]
  /\ IF ~started[n]
       THEN /\ last' = Logged("engine.stop", n, "error", {})
            /\ UNCHANGED closing
       ELSE /\ last' = Logged("engine.stop", n, "closing", {})
            /\ closing' = [closing EXCEPT ![n] =
                             [stopping |-> TRUE, ended |-> EndedByClose(n)]]
  /\ UNCHANGED <<inner, nodeUp, handlers>>

\* the closes complete: this.stream = null and 'close' at every peer, the peer
\* map is emptied, the engine is no longer started, and the callback given by
\* stop resets the subscriptions.
StopDone(n) ==
  /\ closing[n].stopping
  /\ closing' = [closing EXCEPT ![n] = NotClosing]
  /\ started' = [started EXCEPT ![n] = FALSE]
  /\ peers' = TornDown(peers, n, NoPeer)
  /\ chan' = TornDown(chan, n, <<>>)
  /\ lost' = [a \in Nodes |-> [b \in Nodes |->
                lost[a][b] \/ ((a = n \/ b = n) /\ chan[a][b] # <<>>)]]
  /\ jobs' = {IF (j.node = n \/ j.peer = n) /\ j.status = "pending"
                THEN [j EXCEPT !.status = "dropped"] ELSE j : j \in jobs}
  /\ subscriptions' = [subscriptions EXCEPT ![n] = NewSubscriptions(@)]
  /\ last' = Logged("engine.stop", n, "ok", {})
  /\ UNCHANGED <<cache, fwrdHooks, calls, delivered, seen, runs, expired,
                 spinning, nextSeqno, used, nodeUp, handlers>>

\* ------------------------------------------------------------------- facade
\* the options a caller passes to subscribe: frwdHooks, and possibly a
\* property named frwdHook as well
OptionSets ==
  {[frwdHooks |-> <<>>, hasFrwdHook |-> FALSE, frwdHook |-> <<>>],
   [frwdHooks |-> <<"nonzero">>, hasFrwdHook |-> FALSE, frwdHook |-> <<>>],
   [frwdHooks |-> <<"nonzero">>, hasFrwdHook |-> TRUE, frwdHook |-> <<"slow">>]}

\* options = {} when the caller passes none
NoOptions == [frwdHooks |-> <<>>, hasFrwdHook |-> FALSE, frwdHook |-> <<>>]

\* what a caller passes as data: a Buffer or something else
FacadeData == {[isBuffer |-> TRUE, data |-> 1], [isBuffer |-> FALSE, data |-> 1]}

\* if (!node.isStarted() && !multicast.started)
NotStartedYet(nodeStarted, engineStarted) == ~nodeStarted /\ ~engineStarted

\* removeListener(topic, handler): the most recently added instance goes
RECURSIVE RemoveListener(_, _)
RemoveListener(hs, h) ==
  IF hs = <<>> THEN <<>>
  ELSE IF hs[Len(hs)] = h THEN SubSeq(hs, 1, Len(hs) - 1)
  ELSE Append(RemoveListener(SubSeq(hs, 1, Len(hs) - 1), h), hs[Len(hs)])

\* facade subscribe(topic, options, handler, callback)
FacadeSubscribe(n, topic, options, handler) ==
  /\ used.sub < MaxSubOps
  /\ used' = [used EXCEPT !.sub = @ + 1]
  /\ LET first == Len(handlers[n][topic]) = 0
         throws == Len(options.frwdHooks) > 0 /\ ~options.hasFrwdHook
         args == {[topic |-> topic, options |-> options, handler |-> handler]}
     IN  IF NotStartedYet(nodeUp[n], started[n])
           THEN /\ last' = Logged("subscribe", n, "NotStarted", args)
                /\ UNCHANGED <<inner, handlers>>
         ELSE IF first /\ ~AssertStarted(started[n])
           THEN /\ last' = Logged("subscribe", n, "AssertionError", args)
                /\ UNCHANGED <<inner, handlers>>
         ELSE /\ subscriptions' = IF first
                   THEN [subscriptions EXCEPT ![n] = SetAddAll(@, <<topic>>)]
                   ELSE subscriptions
              /\ chan' = IF first THEN SubscribeSends(n, <<topic>>) ELSE chan
              /\ peers' = IF first THEN SubscribeDefers(n, <<topic>>) ELSE peers
              /\ fwrdHooks' = IF Len(options.frwdHooks) > 0 /\ ~throws
                   THEN [fwrdHooks EXCEPT ![n][topic] = addFrwdHooks(@, options.frwdHook)]
                   ELSE fwrdHooks
              /\ handlers' = IF throws THEN handlers
                   ELSE [handlers EXCEPT ![n][topic] = Append(@, handler)]
              /\ last' = Logged("subscribe", n, IF throws THEN "TypeError" ELSE "ok", args)
              /\ UNCHANGED <<started, cache, jobs, calls, delivered, seen, runs, expired,
                             spinning, lost, nextSeqno>>
  /\ UNCHANGED <<nodeUp, closing>>

\* facade unsubscribe(topic, handler)
FacadeUnsubscribe(n, topic, handler) ==
  /\ used.sub < MaxSubOps
  /\ used' = [used EXCEPT !.sub = @ + 1]
  /\ LET left == RemoveListener(handlers[n][topic], handler)
     IN  IF NotStartedYet(nodeUp[n], started[n])
           THEN /\ last' = Logged("unsubscribe", n, "NotStarted", {})
                /\ UNCHANGED <<inner, handlers>>
         ELSE /\ handlers' = [handlers EXCEPT ![n][topic] = left]
              /\ last' = Logged("unsubscribe", n, "ok", {})
              /\ IF Len(left) = 0 /\ ~QuietlyIgnored(started[n])
                   THEN UnsubscribeBody(n, <<topic>>)
                   ELSE UNCHANGED inner
  /\ UNCHANGED <<nodeUp, closing>>

\* facade publish(topic, data, hops, callback)
FacadePublish(n, topic, d, hops) ==
  /\ used.publish < MaxPublish
  /\ used' = [used EXCEPT !.publish = @ + 1]
  /\ IF NotStartedYet(nodeUp[n], started[n])
       THEN /\ last' = Logged("publish", n, "NotStarted", {d})
            /\ UNCHANGED inner
     ELSE IF ~d.isBuffer
       THEN /\ last' = Logged("publish", n, "data must be a Buffer", {d})
            /\ UNCHANGED inner
     ELSE IF ~AssertStarted(started[n])
       THEN /\ last' = Logged("publish", n, "AssertionError", {d})
            /\ UNCHANGED inner
     ELSE /\ PublishBody(n, <<topic>>, <<d.data>>, hops)
          /\ last' = Logged("publish", n, "ok", {d})
  /\ UNCHANGED <<nodeUp, handlers, closing>>

\* facade ls(callback)
FacadeLs(n) ==
  /\ used.life < MaxLifeOps
  /\ used' = [used EXCEPT !.life = @ + 1]
  /\ last' = IF NotStartedYet(nodeUp[n], started[n])
               THEN Logged("ls", n, "NotStarted", {})
               ELSE Logged("ls", n, "ok", Range(subscriptions[n]))
  /\ UNCHANGED <<inner, nodeUp, handlers, closing>>

\* facade peers(topic, callback); topic "" stands for a call without topic
FacadePeers(n, topic) ==
  /\ used.life < MaxLifeOps
  /\ used' = [used EXCEPT !.life = @ + 1]
  /\ last' = IF NotStartedYet(nodeUp[n], started[n])
               THEN Logged("peers", n, "NotStarted", {})
               ELSE Logged("peers", n, "ok",
                      {q \in Nodes : /\ peers[n][q].refs > 0
                                     /\ (topic = "" \/ topic \in Range(peers[n][q].topics))})
  /\ UNCHANGED <<inner, nodeUp, handlers, closing>>

DoStart == \E n \in Nodes : Start(n)

DoLink == \E n \in Nodes, p \in Nodes : Link(n, p)

DoUnlink == \E n \in Nodes, p \in Nodes : Unlink(n, p)

DoSubscribe == \E n \in Nodes, topics \in TopicLists : Subscribe(n, topics)

DoUnsubscribe == \E n \in Nodes, topics \in TopicLists : Unsubscribe(n, topics)

DoAddFrwdHooks ==
  \E n \in Nodes, t \in Topics, hooks \in HookLists : AddFrwdHooks(n, t, hooks)

DoRemoveFrwdHooks ==
  \E n \in Nodes, t \in Topics, hooks \in HookLists : RemoveFrwdHooks(n, t, hooks)

DoPublish ==
  \E n \in Nodes, topics \in TopicLists, payloads \in PayloadLists, hops \in HopsValues :
    Publish(n, topics, payloads, hops)

DoOnRpc == \E p \in Nodes, n \in Nodes : OnRpc(p, n)

DoFilterDone == \E j \in jobs : FilterDone(j)

DoExpire == \E n \in Nodes : \E id \in cache[n] : Expire(n, id)

DoRetry == \E n \in Nodes : \E r \in spinning[n] : Retry(n, r)

DoNodeStart == \E n \in Nodes : NodeStart(n)

DoNodeStop == \E n \in Nodes : NodeStop(n)

DoStopCall == \E n \in Nodes : StopCall(n)

DoStopDone == \E n \in Nodes : StopDone(n)

DoOnRpcCall == \E p \in Nodes, n \in Nodes : OnRpcCall(p, n)

DoPublishCall ==
  \E n \in Nodes, topics \in TopicLists, payloads \in PayloadLists, hops \in HopsValues :
    PublishCall(n, topics, payloads, hops)

DoSubscribeCall == \E n \in Nodes, topics \in TopicLists : SubscribeCall(n, topics)

DoUnsubscribeCall == \E n \in Nodes, topics \in TopicLists : UnsubscribeCall(n, topics)

DoFacadeSubscribe ==
  \E n \in Nodes, t \in Topics, options \in OptionSets, h \in Handlers :
    FacadeSubscribe(n, t, options, h)

DoFacadeUnsubscribe ==
  \E n \in Nodes, t \in Topics, h \in Handlers : FacadeUnsubscribe(n, t, h)

DoFacadePublish ==
  \E n \in Nodes, t \in Topics, d \in FacadeData, hops \in HopsValues :
    FacadePublish(n, t, d, hops)

DoFacadeLs == \E n \in Nodes : FacadeLs(n)

DoFacadePeers == \E n \in Nodes, t \in Topics \cup {""} : FacadePeers(n, t)

Next ==
  \/ DoStart
  \/ DoLink
  \/ DoUnlink
  \/ DoSubscribe
  \/ DoUnsubscribe
  \/ DoAddFrwdHooks
  \/ DoRemoveFrwdHooks
  \/ DoPublish
  \/ DoOnRpc
  \/ DoFilterDone
  \/ DoExpire
  \/ DoRetry
  \/ DoOnRpcCall
  \/ DoNodeStart
  \/ DoNodeStop
  \/ DoStopCall
  \/ DoStopDone
  \/ DoPublishCall
  \/ DoSubscribeCall
  \/ DoUnsubscribeCall
  \/ DoFacadeSubscribe
  \/ DoFacadeUnsubscribe
  \/ DoFacadePublish
  \/ DoFacadeLs
  \/ DoFacadePeers

Spec == Init /\ [][Next]_vars

\* ---------------------------------------------------------- configurations
\* Exhaustive search from Init does not get past the first few operations of
\* three nodes, so the specifications below start from configurations that
\* Init reaches (start, dial in both directions, subscribe, deliver) and run
\* the operations their claims are about.

\* the peer map of node n when every pair of `links` has dialled both ways and
\* every node has announced `announced`, all of it delivered
Connected(links, announced) ==
  [n \in Nodes |-> [p \in Nodes |->
     IF {n, p} \in links
       THEN [refs |-> 2, stream |-> TRUE, topics |-> announced, onConnection |-> <<>>]
       ELSE NoPeer]]

PairLinks == {{"A", "B"}}

LineLinks == {{"A", "B"}, {"B", "C"}}

RingLinks == {{"A", "B"}, {"B", "C"}, {"A", "C"}}

HubLinks == {{"A", "B"}, {"A", "C"}}

InitConnected(linkSets, announced) ==
  /\ started = [n \in Nodes |-> TRUE]
  /\ subscriptions = [n \in Nodes |-> announced]
  /\ cache = [n \in Nodes |-> {}]
  /\ fwrdHooks = [n \in Nodes |-> [t \in Topics |-> NoHooks]]
  /\ \E links \in linkSets : peers = Connected(links, announced)
  /\ chan = [n \in Nodes |-> [p \in Nodes |-> <<>>]]
  /\ jobs = {}
  /\ calls = {}
  /\ delivered = [n \in Nodes |-> EmptyBag]
  /\ seen = [n \in Nodes |-> {}]
  /\ runs = [n \in Nodes |-> EmptyBag]
  /\ expired = [n \in Nodes |-> EmptyBag]
  /\ spinning = [n \in Nodes |-> {}]
  /\ lost = [n \in Nodes |-> [p \in Nodes |-> FALSE]]
  /\ nextSeqno = 1
  /\ used = NoneUsed
  /\ nodeUp = [n \in Nodes |-> TRUE]
  /\ handlers = [n \in Nodes |-> [t \in Topics |-> <<>>]]
  /\ last = NoCall
  /\ closing = [n \in Nodes |-> NotClosing]

\* Flooding: every node subscribed to foo and every neighbour told so; nodes
\* publish, records are read, cache entries time out.
InitFlood == InitConnected({PairLinks, LineLinks, RingLinks}, <<"foo">>)

FloodPublish == \E hops \in HopsValues : Publish("A", <<"foo">>, <<1>>, hops)

NextFlood ==
  \/ FloodPublish
  \/ DoOnRpc
  \/ DoExpire

SpecFlood == InitFlood /\ [][NextFlood]_vars

\* Forwarding: A and B connected, nothing announced yet.  B subscribes and
\* unsubscribes, A registers and removes hooks and publishes.
InitForward == InitConnected({PairLinks}, <<>>)

ForwardSubscribe == \E topics \in TopicLists : Subscribe("B", topics)

ForwardUnsubscribe == \E topics \in TopicLists : Unsubscribe("B", topics)

ForwardAddHooks == \E t \in Topics, hooks \in HookLists : AddFrwdHooks("A", t, hooks)

ForwardRemoveHooks ==
  \E t \in Topics, hooks \in HookLists : RemoveFrwdHooks("A", t, hooks)

ForwardPublish ==
  \E topics \in TopicLists, payloads \in PayloadLists : Publish("A", topics, payloads, 1)

NextForward ==
  \/ ForwardSubscribe
  \/ ForwardUnsubscribe
  \/ ForwardAddHooks
  \/ ForwardRemoveHooks
  \/ ForwardPublish
  \/ DoOnRpc
  \/ DoFilterDone

SpecForward == InitForward /\ [][NextForward]_vars

\* Interest: A and B connected and subscribed to foo, each told so.  B adds bar
\* and drops topics while A, whose hook on foo answers out of line, publishes
\* on foo; B sends what it accepts on with one hop less.
InitSkip == InitConnected({PairLinks}, <<"foo">>)

SkipSubscribe == Subscribe("B", <<"bar">>)

SkipUnsubscribe == \E t \in Topics : Unsubscribe("B", <<t>>)

SkipAddHooks == AddFrwdHooks("A", "foo", <<"slow">>)

SkipRemoveHooks == RemoveFrwdHooks("A", "foo", <<"slow">>)

SkipPublish == \E payloads \in {<<0>>, <<1>>} : Publish("A", <<"foo">>, payloads, 1)

NextSkip ==
  \/ SkipSubscribe
  \/ SkipUnsubscribe
  \/ SkipAddHooks
  \/ SkipRemoveHooks
  \/ SkipPublish
  \/ DoOnRpc
  \/ DoFilterDone

SpecSkip == InitSkip /\ [][NextSkip]_vars

\* Subscription mirror: A and B connected, nothing announced yet.  Connections
\* between them end and are dialled again while A subscribes and unsubscribes.
InitMirror == InitConnected({PairLinks}, <<>>)

MirrorLink == \E n \in {"A", "B"}, p \in {"A", "B"} : Link(n, p)

MirrorUnlink == \E n \in {"A", "B"}, p \in {"A", "B"} : Unlink(n, p)

MirrorSubscribe == \E topics \in TopicLists : SubscribeCall("A", topics)

MirrorUnsubscribe == \E topics \in TopicLists : UnsubscribeCall("A", topics)

MirrorRetry == \E r \in spinning["A"] : Retry("A", r)

NextMirror ==
  \/ MirrorLink
  \/ MirrorUnlink
  \/ MirrorSubscribe
  \/ MirrorUnsubscribe
  \/ MirrorRetry
  \/ DoOnRpc

SpecMirror == InitMirror /\ [][NextMirror]_vars

\* Empty inputs: A and B connected, B has announced foo.  A publishes, subscribes
\* and unsubscribes with lists that may be empty, with and without a hook on
\* foo, and the connection A dialled ends and is dialled again.
InitEmpty == InitConnected({PairLinks}, <<"foo">>)

EmptyPublish == \E payloads \in {<<>>, <<0>>} : Publish("A", <<"foo">>, payloads, 1)

EmptySubscribe == \E topics \in {<<>>, <<"bar">>} : Subscribe("A", topics)

EmptyUnsubscribe == \E topics \in {<<>>, <<"foo">>} : Unsubscribe("A", topics)

EmptyAddHooks == \E hooks \in {<<"nonzero">>, <<"slow">>} : AddFrwdHooks("A", "foo", hooks)

EmptyLink == Link("A", "B")

EmptyUnlink == Unlink("A", "B")

NextEmpty ==
  \/ EmptyPublish
  \/ EmptySubscribe
  \/ EmptyUnsubscribe
  \/ EmptyAddHooks
  \/ EmptyLink
  \/ EmptyUnlink
  \/ DoOnRpc
  \/ DoFilterDone

SpecEmpty == InitEmpty /\ [][NextEmpty]_vars

\* Negative hops: A, B and C on a ring, all subscribed to foo and every
\* neighbour told so.  A publishes with a negative hop count, records are read,
\* cache entries time out.
InitNegative == InitConnected({RingLinks}, <<"foo">>)

NegativePublish == \E hops \in NegativeHops : Publish("A", <<"foo">>, <<1>>, hops)

NextNegative ==
  \/ NegativePublish
  \/ DoOnRpc
  \/ DoExpire

SpecNegative == InitNegative /\ [][NextNegative]_vars

\* Order of effects: A, B and C on a line, all subscribed to foo and
\* every neighbour told so.  A publishes one or two messages, B may hold its
\* forwards back with a slow hook, and every handler records its effects.
InitOrder == InitConnected({LineLinks}, <<"foo">>)

OrderPublish ==
  \E payloads \in {<<1>>, <<0, 1>>} : PublishCall("A", <<"foo">>, payloads, 1)

OrderAddHooks == AddFrwdHooks("B", "foo", <<"slow">>)

NextOrder ==
  \/ OrderPublish
  \/ OrderAddHooks
  \/ DoOnRpcCall
  \/ DoFilterDone

SpecOrder == InitOrder /\ [][NextOrder]_vars

\* Listeners: A and B connected, nothing announced yet.  A is called through
\* the facade without hooks in the options, and its engine stops and starts.
InitAgree == InitConnected({PairLinks}, <<>>)

AgreeEngine == Start("A") \/ StopCall("A") \/ StopDone("A")

AgreeSubscribe ==
  \E t \in Topics, h \in Handlers : FacadeSubscribe("A", t, NoOptions, h)

AgreeUnsubscribe == \E t \in Topics, h \in Handlers : FacadeUnsubscribe("A", t, h)

NextAgree ==
  \/ AgreeEngine
  \/ AgreeSubscribe
  \/ AgreeUnsubscribe
  \/ DoOnRpc

SpecAgree == InitAgree /\ [][NextAgree]_vars

\* Lifecycle: A and B connected, nothing announced yet.  A's host node and
\* engine stop and start again, B dials A again, and A is called through the
\* facade and directly while one, both or neither of the two is running.
InitLife == InitConnected({PairLinks}, <<>>)

LifeNode == NodeStart("A") \/ NodeStop("A")

LifeEngine == Start("A") \/ StopCall("A") \/ StopDone("A")

LifeLink == Link("B", "A")

LifeFacadeSubscribe ==
  \E options \in OptionSets, h \in Handlers : FacadeSubscribe("A", "foo", options, h)

LifeFacadeUnsubscribe == \E h \in Handlers : FacadeUnsubscribe("A", "foo", h)

LifeFacadePublish == \E d \in FacadeData : FacadePublish("A", "foo", d, 1)

LifeFacadeRead == FacadeLs("A") \/ \E t \in {"", "foo"} : FacadePeers("A", t)

LifeEngineCalls ==
  \/ PublishCall("A", <<"foo">>, <<1>>, 1)
  \/ SubscribeCall("A", <<"foo">>)
  \/ UnsubscribeCall("A", <<"foo">>)

NextLife ==
  \/ LifeNode
  \/ LifeEngine
  \/ LifeLink
  \/ LifeFacadeSubscribe
  \/ LifeFacadeUnsubscribe
  \/ LifeFacadePublish
  \/ LifeFacadeRead
  \/ LifeEngineCalls
  \/ DoOnRpc

SpecLife == InitLife /\ [][NextLife]_vars

\* Lost streams: B and C connected to A, all subscribed to foo.  A registers a
\* hook that answers out of line and publishes; connections between A and its
\* peers end and are dialled again while filters are pending.
InitDrop == InitConnected({HubLinks}, <<"foo">>)

DropAddHooks == AddFrwdHooks("A", "foo", <<"slow">>)

DropPublish == \E payloads \in {<<0>>, <<1>>} : Publish("A", <<"foo">>, payloads, 0)

DropUnlink == \E q \in {"B", "C"} : Unlink("A", q) \/ Unlink(q, "A")

DropLink == \E q \in {"B", "C"} : Link("A", q)

NextDrop ==
  \/ DropAddHooks
  \/ DropPublish
  \/ DropUnlink
  \/ DropLink
  \/ DoOnRpc
  \/ DoFilterDone

SpecDrop == InitDrop /\ [][NextDrop]_vars

\* ------------------------------------------------------------------ history
\* the messages publish has built so far (publish always calls the forward
\* procedure with them), and their identifiers
Published ==
  UNION {Range(c.msgs) : c \in {x \in calls : x.via = "publish"}}

AllIds == {IdOf(m) : m \in Published}

CountWhere(B, P(_)) == BagCardinality([x \in {y \in DOMAIN B : P(y)} |-> B[x]])

\* how often the receive pipeline of n accepted a message with this identifier
Accepted(n, id) == CountWhere(runs[n], LAMBDA m : IdOf(m) = id)

\* how often the cache entry of this identifier timed out at n
TimedOut(n, id) == CopiesIn(id, expired[n])

\* how often n's listeners of `topic` got a message with this identifier
Emits(n, id, topic, via) ==
  CountWhere(delivered[n], LAMBDA e : e.via = via /\ e.topic = topic /\ IdOf(e.msg) = id)

\* the forward calls of n for a message with this identifier
CallsFor(n, id, via) ==
  {c \in calls : c.node = n /\ c.via = via /\ \E i \in DOMAIN c.msgs : IdOf(c.msgs[i]) = id}

\* the identifiers n published itself
PublishedBy(n) == {id \in AllIds : id[1] = n}

OwnInsert(n, id) == IF id \in PublishedBy(n) THEN 1 ELSE 0

\* ----------------------------------------------------------------------- C1
\* C1 (dedup): at every node and for every message identifier, the receive
\* pipeline accepts the identifier (inserts it, emits, forwards) only when it is
\* not live in the cache: the insertions of an identifier never outnumber its
\* time-outs by more than one, and the local emits per topic and the forward
\* calls made by the receive pipeline never outnumber the acceptances.
C1_Dedup ==
  \A n \in Nodes : \A id \in AllIds :
    /\ Accepted(n, id) + OwnInsert(n, id) <= 1 + TimedOut(n, id)
    /\ Accepted(n, id) + OwnInsert(n, id) > TimedOut(n, id) => id \in cache[n]
    /\ \A t \in Topics : Emits(n, id, t, "rpc") <= Accepted(n, id)
    /\ Cardinality(CallsFor(n, id, "rpc")) <= Accepted(n, id)

\* a node accepted a message once, and discarded a later copy of it
C1_Witness ==
  \E n \in Nodes : \E id \in seen[n] :
    /\ id[1] # n
    /\ Accepted(n, id) = 1
    /\ Emits(n, id, "foo", "rpc") = 1

\* ----------------------------------------------------------------------- C2
\* what node p pushed on its stream to q in this step
Appended(p, q) == SubSeq(chan'[p][q], Len(chan[p][q]) + 1, Len(chan'[p][q]))

\* the messages, in in-memory form, of the records of a sequence
Carried(records) ==
  UNION {Range(normalizeInRpcMessages(records[i].msgs)) : i \in DOMAIN records}

\* C2 (hop termination): in every step in which the receive pipeline of a node
\* accepts a message, the message is emitted to the listeners of each of its
\* topics the node is subscribed to; if it came with hops = 0 the forward
\* procedure is not called for it and nothing carrying it is pushed; if it came
\* with hops = k > 0 the forward procedure is called once with hops = k - 1,
\* and every copy pushed or left to a pending filter carries k - 1.
C2_HopTermination ==
  [][\A p \in Nodes : \A m \in BagToSet(runs'[p] (-) runs[p]) :
       LET newCalls == {c \in calls' \ calls :
                          c.node = p /\ c.via = "rpc" /\ IdOf(c.msgs[1]) = IdOf(m)}
           pushed == UNION {Carried(Appended(p, q)) : q \in Nodes}
           queued == UNION {Range(j.msgs) : j \in {x \in jobs' \ jobs : x.call \in newCalls}}
       IN  /\ \A t \in Range(m.topicIDs) \cap Range(subscriptions[p]) :
                CopiesIn([topic |-> t, msg |-> m, via |-> "rpc"], delivered'[p])
                  = CopiesIn([topic |-> t, msg |-> m, via |-> "rpc"], delivered[p]) + 1
           /\ m.hops = 0 =>
                /\ newCalls = {}
                /\ \A x \in pushed : IdOf(x) # IdOf(m)
           /\ m.hops > 0 =>
                /\ \E c \in newCalls : newCalls = {c} /\ c.msgs = <<[m EXCEPT !.hops = @ - 1]>>
                /\ \A x \in pushed \cup queued : IdOf(x) = IdOf(m) => x.hops = m.hops - 1
  ]_vars

\* one node accepted a copy with hops = 0, emitted it and stopped; another
\* accepted a copy with hops > 0 and a peer was sent the decremented copy
C2_Witness ==
  /\ \E p \in Nodes : \E m \in BagToSet(runs[p]) :
       /\ m.hops = 0
       /\ Emits(p, IdOf(m), "foo", "rpc") = 1
       /\ CallsFor(p, IdOf(m), "rpc") = {}
  /\ \E p \in Nodes : \E m \in BagToSet(runs[p]) :
       /\ m.hops > 0
       /\ \E j \in jobs : j.node = p /\ j.status = "sent"
                          /\ j.out = <<[m EXCEPT !.hops = @ - 1]>>

\* ----------------------------------------------------------------------- C3
\* C3 (self-echo suppression): while the cache entry of a message a node
\* published has not timed out, the identifier is in the node's cache and the
\* node's receive pipeline has neither accepted a copy of it, nor emitted it to
\* local listeners, nor forwarded it.
C3_SelfEcho ==
  \A n \in Nodes : \A id \in PublishedBy(n) :
    TimedOut(n, id) = 0 =>
      /\ id \in cache[n]
      /\ Accepted(n, id) = 0
      /\ \A t \in Topics : Emits(n, id, t, "rpc") = 0
      /\ CallsFor(n, id, "rpc") = {}

\* a copy of a message came back to its publisher and was discarded, after the
\* publisher had emitted the message to its own listeners at publish time
C3_Witness ==
  \E n \in Nodes : \E id \in PublishedBy(n) :
    /\ id \in seen[n]
    /\ TimedOut(n, id) = 0
    /\ Emits(n, id, "foo", "publish") = 1

\* ------------------------------------------------------------- C9 and C10
\* nothing is in flight and no filter is pending
Quiet ==
  /\ \A n \in Nodes, p \in Nodes : chan[n][p] = <<>>
  /\ \A j \in jobs : j.status # "pending"

NoTimeOut == \A n \in Nodes : expired[n] = EmptyBag

C10_NoForwardAtB ==
  (peers = Connected(PairLinks, <<"foo">>) /\ NoTimeOut) =>
    \A m \in Published : (m.from = "A" /\ m.hops = 1) =>
      /\ Emits("B", IdOf(m), "foo", "rpc") <= 1
      /\ CallsFor("B", IdOf(m), "rpc") = {}

\* C10 as amended: B's listener gets exactly one message, the one A built; B
\* calls the forward procedure for it once, with hops = 0; the node that reads
\* that copy does not forward it.
C10_OneMoreHop ==
  (peers = Connected(PairLinks, <<"foo">>) /\ NoTimeOut) =>
    \A m \in Published : (m.from = "A" /\ m.hops = 1) =>
      /\ Emits("B", IdOf(m), "foo", "rpc") <= 1
      /\ \A e \in BagToSet(delivered["B"]) : IdOf(e.msg) = IdOf(m) => e.msg = m
      /\ Cardinality(CallsFor("B", IdOf(m), "rpc")) <= 1
      /\ \A c \in CallsFor("B", IdOf(m), "rpc") : c.msgs = <<[m EXCEPT !.hops = 0]>>
      /\ CallsFor("A", IdOf(m), "rpc") = {}
      /\ Quiet => /\ Emits("B", IdOf(m), "foo", "rpc") = 1
                  /\ Cardinality(CallsFor("B", IdOf(m), "rpc")) = 1
                  /\ IdOf(m) \in seen["A"]

\* A published with hops = 1, B emitted it and sent the hops = 0 copy on, and
\* everything has been read
C10_Witness ==
  /\ peers = Connected(PairLinks, <<"foo">>) /\ NoTimeOut /\ Quiet
  /\ \E m \in Published :
       /\ m.from = "A" /\ m.hops = 1
       /\ Emits("B", IdOf(m), "foo", "rpc") = 1
       /\ \E j \in jobs : j.node = "B" /\ j.peer = "A" /\ j.status = "sent"
                          /\ j.out = <<[m EXCEPT !.hops = 0]>>

\* ------------------------------------------------------------ C4, C5, C6
\* the iterations of one forward call for one peer, one per topic of the peer
Group(j) == {x \in jobs : x.call = j.call /\ x.peer = j.peer}

\* every iteration of the group has ended and the peer stayed writable
Settled(j) == \A x \in Group(j) : x.status \in {"sent", "none", "error"}

\* iteration x sent message m
SentBy(x, m) == x.status = "sent" /\ m \in Range(x.out)

\* every hook that iteration x ran approves m for the peer
Approved(x, m) == \A v \in Range(x.validators) : Validate(v, x.peer, m) = "true"

\* C4 (validator conjunction): for every peer considered by a forward call,
\* every topic t of the peer that has hooks and every message of the call that
\* carries t, the message is sent to the peer on account of t if and only if
\* every hook registered for t answers truthy for (peer, message).
C4_Conjunction ==
  \A j \in jobs : (j.hooked /\ Settled(j)) =>
    \A m \in Range(j.msgs) : j.topic \in Range(m.topicIDs) =>
      (SentBy(j, m) <=> Approved(j, m))

\* C5 (the topics that decide): a message of a forward call is sent to a
\* considered peer if and only if it passes for at least one topic that the
\* peer announced and the message carries: a topic without hooks, or one whose
\* hooks all approve.
C5_IntersectionDecides ==
  \A j \in jobs : Settled(j) =>
    \A m \in Range(j.msgs) :
      (\E x \in Group(j) : SentBy(x, m))
        <=> (\E x \in Group(j) : x.topic \in Range(m.topicIDs) /\ Approved(x, m))

\* C6 (one RPC per peer per forward): the iterations of one forward call for
\* one peer push at most one record, and no message is in it twice.
C6_OneRpcPerPeer ==
  \A j \in jobs :
    /\ Cardinality({x \in Group(j) : x.status = "sent"}) <= 1
    /\ j.status = "sent" =>
         \A a, b \in DOMAIN j.out : j.out[a] = j.out[b] => a = b

\* ----------------------------------------------------------------------- C7
\* C7 as claimed (disjoint-interest skip): whenever a record with messages is
\* pushed on the stream to a peer, the topics the peer has announced at that
\* moment meet the topicIDs of every message in it.
C7_InterestAtSend ==
  \A j \in jobs : j.status = "sent" =>
    \A m \in Range(j.out) : anyMatch(j.sentTopics, m.topicIDs)

\* C7 as amended: every record with messages pushed on the stream to a peer
\* comes from an iteration of a forward call for that peer, and the topics the
\* peer had announced when the call examined it meet the topicIDs of every
\* message in the record.
C7_InterestAtCall ==
  [][\A n \in Nodes, q \in Nodes : \A i \in DOMAIN Appended(n, q) :
       Len(Appended(n, q)[i].msgs) > 0 =>
         \E j \in jobs' :
           /\ j.node = n /\ j.peer = q /\ j.status = "sent"
           /\ normalizeOutRpcMessages(j.out) = Appended(n, q)[i].msgs
           /\ \A m \in Range(j.out) : anyMatch(j.ptopics, m.topicIDs)
  ]_vars

\* a hook that answered out of line let a message through to a peer that had
\* announced one of its topics when the call examined it and none when the
\* record was pushed
C7_Witness ==
  \E j \in jobs :
    /\ j.hooked /\ j.status = "sent"
    /\ \E m \in Range(j.out) :
         /\ anyMatch(j.ptopics, m.topicIDs)
         /\ ~anyMatch(j.sentTopics, m.topicIDs)

\* ----------------------------------------------------------------------- C8
\* C8 (subscription mirror), as the state it promises once everything pushed
\* has been read: while A has a stream to B, B holds a record of A, nothing
\* A pushed is unread and nothing A pushed was lost with a connection, B's
\* record of A's topics is exactly what A is subscribed to.
C8_Mirror ==
  (/\ peers["A"]["B"].stream
   /\ peers["B"]["A"].refs > 0
   /\ chan["A"]["B"] = <<>>
   /\ ~lost["A"]["B"])
    => Range(peers["B"]["A"].topics) = Range(subscriptions["A"])

\* ---------------------------------------------------------------------- C11
\* the step is a call of the facade
FacadeCalled ==
  /\ last'.seq # last.seq
  /\ last'.op \in {"subscribe", "unsubscribe", "publish", "ls", "peers"}

\* C11 (facade NotStarted): every call of subscribe, unsubscribe, publish, ls
\* or peers made while the host node or the engine is not started reports
\* NotStarted and changes nothing; publish with data that is not a Buffer
\* reports an error and changes nothing.
C11_FacadeNotStarted ==
  [][FacadeCalled =>
       /\ (~nodeUp[last'.node] \/ ~started[last'.node]) =>
            (last'.result = "NotStarted" /\ UNCHANGED <<inner, handlers>>)
       /\ (last'.op = "publish" /\ \E d \in last'.value : ~d.isBuffer) =>
            (last'.result # "ok" /\ UNCHANGED <<inner, handlers>>)
  ]_vars

\* ---------------------------------------------------------------------- C12
\* the step is a direct call of the engine
EngineCalled ==
  /\ last'.seq # last.seq
  /\ last'.op \in {"engine.publish", "engine.subscribe", "engine.unsubscribe"}

\* C12 (engine not started): a call of publish or subscribe made while the
\* engine is not started fails its assertion, and a call of unsubscribe
\* returns; none of them changes the cache, the subscriptions, the emits, the
\* streams, the pending filters or the retry loops.
C12_EngineNotStarted ==
  [][(EngineCalled /\ ~started[last'.node]) =>
       /\ UNCHANGED inner
       /\ last'.result = IF last'.op = "engine.unsubscribe"
                           THEN "returned" ELSE "AssertionError"
  ]_vars

\* subscribe has just failed its assertion at the stopped engine of A, which
\* still has listeners registered through the facade
C12_Witness ==
  /\ ~started["A"]
  /\ last.op = "engine.subscribe" /\ last.result = "AssertionError"
  /\ subscriptions["A"] = <<>>
  /\ handlers["A"]["foo"] # <<>>

\* ---------------------------------------------------------------------- C13
\* C13 (stop): a call of stop leaves the hook registry and the cache as they
\* were; when it completes without error the node's subscriptions are empty,
\* and when the base protocol reports an error the caller gets the error and
\* the subscriptions are as they were.
C13_Stop ==
  [][(last'.seq # last.seq /\ last'.op = "engine.stop") =>
       /\ fwrdHooks' = fwrdHooks
       /\ cache' = cache
       /\ last'.result \in {"closing", "ok", "error"}
       /\ last'.result = "ok" => subscriptions'[last'.node] = <<>>
       /\ last'.result \in {"closing", "error"} => subscriptions' = subscriptions
  ]_vars

\* stop has just completed at A, which had subscribed to foo through the
\* facade, registered a hook and published: the hook and the cache entry are
\* still there and the subscriptions are gone
C13_Witness ==
  /\ last.op = "engine.stop" /\ last.result = "ok"
  /\ ~started["A"]
  /\ subscriptions["A"] = <<>>
  /\ handlers["A"]["foo"] # <<>>
  /\ fwrdHooks["A"]["foo"].has
  /\ cache["A"] # {}

\* ---------------------------------------------------------------------- C14
\* C14 (facade subscribe with hooks): a call of the facade's subscribe with a
\* non-empty options.frwdHooks, made while the host node and the engine are
\* started, ends without error, leaves every hook of options.frwdHooks in the
\* registry of the topic and the handler among the topic's listeners, and so
\* does not leave the engine subscribed to the topic without a listener.
C14_SubscribeWithHooks ==
  [][(/\ last'.seq # last.seq
      /\ last'.op = "subscribe"
      /\ nodeUp[last'.node] /\ started[last'.node]
      /\ \E a \in last'.value : Len(a.options.frwdHooks) > 0) =>
       \A a \in last'.value :
         /\ last'.result = "ok"
         /\ Range(a.options.frwdHooks) \subseteq Range(fwrdHooks'[last'.node][a.topic].hooks)
         /\ a.handler \in Range(handlers'[last'.node][a.topic])
         /\ ~(/\ a.topic \in Range(subscriptions'[last'.node])
              /\ handlers'[last'.node][a.topic] = <<>>)
  ]_vars

\* ---------------------------------------------------------------------- C15
\* a hook of iteration x called back with an error for m
Errored(x, m) ==
  x.topic \in Range(m.topicIDs) /\ EveryVerdict(x.validators, x.peer, m).res = "error"

\* C15 (validator error): when a hook errors on a message of a forward call,
\* that message is not sent to the peer on account of the hook's topic, and
\* the messages of the same call that carry the topic and that every hook of
\* the topic approves are still sent to the peer.
C15_ErrorAsFalse ==
  \A j \in jobs :
    (j.hooked /\ Settled(j) /\ \E e \in Range(j.msgs) : Errored(j, e)) =>
      \A m \in Range(j.msgs) :
        /\ Errored(j, m) => ~SentBy(j, m)
        /\ (j.topic \in Range(m.topicIDs) /\ Approved(j, m)) => SentBy(j, m)

\* ---------------------------------------------------------------------- C16
\* the iteration that j has become in the next state
After(j) ==
  CHOOSE d \in jobs' : d.call = j.call /\ d.peer = j.peer /\ d.topic = j.topic

C17_DeferredUnsubscribe ==
  [][(last'.seq # last.seq /\ last'.op = "retry") =>
       \A r \in last'.value :
         peers[last'.node][r.peer].stream =>
           /\ Appended(last'.node, r.peer) = RawSubscriptions(r.topics, FALSE, FALSE)
           /\ r \notin spinning'[last'.node]
    ]_vars

\* ---------------------------------------------------------------------- C19
\* C19 (torn-down channel): no step pushes a record onto a send channel that
\* is torn down before and after the step, whether onStreamEnd cleared it or
\* close() has ended it and has not completed yet.
C19_NoPushAfterEnd ==
  [][\A n \in Nodes, q \in Nodes :
       (\/ ~peers[n][q].stream /\ ~peers'[n][q].stream
        \/ q \in closing[n].ended /\ q \in closing'[n].ended) =>
         Appended(n, q) = <<>>
    ]_vars

\* ---------------------------------------------------------------------- C18
\* the subscribe-delta record of a list of topics
SubscribeDelta(topics) ==
  [subscriptions |-> [i \in DOMAIN topics |-> [subscribe |-> TRUE, topicCID |-> topics[i]]],
   msgs |-> <<>>]

\* the records of a sequence that announce a subscription
Announcing(records) ==
  {i \in DOMAIN records :
     \E k \in DOMAIN records[i].subscriptions : records[i].subscriptions[k].subscribe}

\* C18 (deferred subscribe): a subscribe(topics) call pushes its delta at once
\* to each writable peer and leaves one listener on each known peer that is
\* not writable; the next connection event of that peer pushes one delta per
\* listener, in the order of the calls and before what the dial path
\* announces, and leaves no listener; a peer record that is released loses its
\* listeners; and no other step pushes an announcement or adds a listener.
C18_DeferredSubscribe ==
  [][\A n \in Nodes, q \in Nodes :
       LET peer == peers[n][q]
           after == peers'[n][q]
           subscribed == /\ last'.seq # last.seq
                         /\ last'.op = "engine.subscribe"
                         /\ last'.result = "returned"
                         /\ last'.node = n
           connected == ~peer.stream /\ after.stream
       IN  /\ subscribed =>
                \A topics \in last'.value :
                  IF peer.stream
                    THEN /\ Appended(n, q) = <<SubscribeDelta(topics)>>
                         /\ after.onConnection = peer.onConnection
                    ELSE /\ Appended(n, q) = <<>>
                         /\ after.onConnection =
                              IF peer.refs > 0 THEN Append(peer.onConnection, topics)
                                               ELSE <<>>
           /\ connected =>
                /\ after.onConnection = <<>>
                /\ Len(Appended(n, q)) =
                     Len(peer.onConnection) + (IF subscriptions[n] = <<>> THEN 0 ELSE 1)
                /\ \A i \in DOMAIN peer.onConnection :
                     Appended(n, q)[i] = SubscribeDelta(peer.onConnection[i])
           /\ after.refs = 0 => after.onConnection = <<>>
           /\ (~subscribed /\ ~connected) =>
                /\ Announcing(Appended(n, q)) = {}
                /\ after.onConnection \in {peer.onConnection, <<>>}
    ]_vars

\* A subscribed once while its stream to B was down, and dialled B again: the
\* listener's delta and the dial path's announcement are both on the stream
C18_Witness ==
  /\ used.sub = 1
  /\ last.op = "engine.subscribe"
  /\ peers["A"]["B"].stream /\ peers["A"]["B"].onConnection = <<>>
  /\ Len(chan["A"]["B"]) = 2
  /\ \A topics \in last.value : chan["A"]["B"][1] = SubscribeDelta(topics)

\* ---------------------------------------------------------------------- C20
\* C20 (no empty RPC): every record on a send stream has a subscription entry
\* or a message.
C20_NoEmptyRpc ==
  \A n \in Nodes, q \in Nodes : \A i \in DOMAIN chan[n][q] :
    chan[n][q][i].subscriptions # <<>> \/ chan[n][q][i].msgs # <<>>

\* ---------------------------------------------------------------------- C22
\* C22 (listeners and subscriptions agree): while the engine of a node is
\* started, a topic is in its subscription set exactly when a listener is
\* registered for it.
C22_ListenersAgree ==
  \A n \in Nodes, t \in Topics :
    started[n] => (t \in Range(subscriptions[n]) <=> handlers[n][t] # <<>>)

\* ---------------------------------------------------------------------- C23
\* the forward calls of the receive pipeline of n for this identifier, counted
ForwardsOf(n, id) == Cardinality(CallsFor(n, id, "rpc"))

Handled ==
  /\ last'.seq # last.seq
  /\ last'.op \in {"engine.publish", "_onRpc"}
  /\ last'.result = "returned"

\* C21 (emit before forward): in every run of publish or of the receive
\* pipeline, the recorded effects are the emits and pushes the step makes,
\* and every emit of a message comes before every push of a record that
\* carries it.
C21_EmitBeforeForward ==
  [][Handled =>
       \A order \in last'.value :
         LET n == last'.node
             at(kind) == {i \in DOMAIN order : order[i].kind = kind}
         IN  /\ Cardinality(at("emit")) =
                  BagCardinality(delivered'[n]) - BagCardinality(delivered[n])
             /\ \A q \in Nodes \ {n} :
                  Cardinality({i \in at("push") : order[i].peer = q}) = Len(Appended(n, q))
             /\ \A i \in at("emit"), j \in at("push") :
                  order[i].ids \cap order[j].ids # {} => i < j
    ]_vars

\* B has just read a record, accepted its message, emitted it and pushed it on
C21_Witness ==
  /\ last.op = "_onRpc" /\ last.node = "B"
  /\ \E order \in last.value :
       /\ \E i \in DOMAIN order : order[i].kind = "emit"
       /\ \E j \in DOMAIN order : order[j].kind = "push"

====================================================================
